---- MODULE Spec2Model ----
(***************************************************************************)
(* Asynchronous error handling in Express: the three samples of the        *)
(* repository (promises.js, generators.js, asyncAwait.js).  Each sample    *)
(* registers one GET / route and one error-handling middleware.  A request *)
(* is dispatched to one of the three samples; its route handler runs the   *)
(* handler logic `prog`, a sequence of statements, suspending at every     *)
(* asynchronous step.  Requests in flight interleave at their suspension   *)
(* points (one event loop, one job at a time).                             *)
(***************************************************************************)
EXTENDS Naturals, Sequences, FiniteSets, TLC

\* Number of requests that may be in flight.
NumReq == 2
\* Longest generated handler logic (statements).
MaxSteps == 2

VARIABLES prog, reqs
vars == <<prog, reqs>>

Reqs == 1..NumReq

-----------------------------------------------------------------------------
(* testUtils: the two stand-in asynchronous operations.                    *)

\* asyncTaskGood() resolves with the greeting.
GoodResult == "Hello World"
\* asyncTaskBad() rejects with new Error('oh no!').
BadError == [message |-> "oh no!"]
\* throw new BadRequestError('Missing Id')
ThrownError == [message |-> "Missing Id"]
\* the error a handler passes to next itself (stream.on('error', next))
StreamError == [message |-> "stream error"]
\* the value of `result` before any step has resolved
Undefined == "undefined"
\* res.write('will not make it here')
LateText == "will not make it here"
NoError == [message |-> ""]

-----------------------------------------------------------------------------
(* Handler logic.  A statement is one of                                   *)
(*   awaitGood    result = await/yield asyncTaskGood()   (or a then stage) *)
(*   awaitBad     await/yield asyncTaskBad()                               *)
(*   writeResult  res.write(`${result}\n`)                                 *)
(*   writeLit     res.write('will not make it here')                       *)
(*   throw        throw new BadRequestError('Missing Id')                  *)
(*   next         the handler calls next(err) itself                       *)
(*   try, catch, end    try { ... } catch (err) { ... }                    *)

FlatStmt == {"awaitGood", "awaitBad", "writeResult", "writeLit", "throw", "next"}

\* The route of the three samples.
SampleProgram == <<"awaitGood", "writeResult", "awaitBad", "writeLit">>
\* A failing step caught locally, with statements in the try block after it.
RecoverProgram ==
    <<"awaitGood", "try", "awaitBad", "writeLit", "catch", "writeResult", "end", "writeResult">>
\* A try block whose step succeeds: the catch block is skipped.
NoRecoverProgram ==
    <<"try", "awaitGood", "writeResult", "catch", "writeLit", "end", "writeResult">>
\* A throw caught locally, then a failing step outside the try block.
ThrowRecoverProgram ==
    <<"try", "throw", "writeLit", "catch", "writeResult", "end", "awaitBad", "writeLit">>

TryPrograms == {RecoverProgram, NoRecoverProgram, ThrowRecoverProgram}

Programs ==
    UNION {[1..n -> FlatStmt] : n \in 0..MaxSteps} \cup {SampleProgram} \cup TryPrograms

-----------------------------------------------------------------------------
(* The response and the error-handling middleware.                         *)

InitReq ==
    [st |-> "idle", variant |-> "none", pc |-> 1, result |-> Undefined,
     handlers |-> <<>>, err |-> NoError, resumed |-> FALSE,
     chunks |-> <<>>, ended |-> FALSE, endCalls |-> 0, writeAfterEnd |-> FALSE,
     nextCalls |-> <<>>, errCalls |-> <<>>, caughtBy |-> "none", uncaught |-> FALSE]

\* Variant of ResWrite: the chunk is put before what was already sent.
ResWritePrepends(r, chunk) ==
    IF r.ended THEN [r EXCEPT !.writeAfterEnd = TRUE]
    ELSE [r EXCEPT !.chunks = <<chunk>> \o @]

\* res.write(chunk): the chunk is sent unless the response has ended.
ResWrite(r, chunk) ==
    IF r.ended THEN [r EXCEPT !.writeAfterEnd = TRUE]
    ELSE [r EXCEPT !.chunks = Append(@, chunk)]

\* Variant of ResEnd: the chunk is sent but the response stays open
\* (res.write in place of res.end).
ResEndKeepsOpen(r, chunk) ==
    [r EXCEPT !.chunks = Append(@, chunk), !.endCalls = @ + 1]

\* res.end(chunk): the last chunk is sent and the response is terminated.
ResEnd(r, chunk) ==
    IF r.ended THEN [r EXCEPT !.endCalls = @ + 1]
    ELSE [r EXCEPT !.chunks = Append(@, chunk), !.ended = TRUE, !.endCalls = @ + 1]

\* The response body the client receives: the chunks sent, in order.
RECURSIVE Concat(_)
Concat(cs) == IF cs = <<>> THEN "" ELSE Head(cs) \o Concat(Tail(cs))

Body(r) == Concat(r.chunks)

\* Variant of ErrorMiddleware: the error is only recorded (logged) and the
\* response is left open.
ErrorMiddlewareLogsOnly(r, er) ==
    [r EXCEPT !.errCalls = Append(@, er)]

\* Variant of ErrorMiddleware: res.end() without the message.
ErrorMiddlewareNoMessage(r, er) ==
    ResEnd([r EXCEPT !.errCalls = Append(@, er)], "")

\* app.use(function (er, req, res, next) { res.end(er.message) })
ErrorMiddleware(r, er) ==
    ResEnd([r EXCEPT !.errCalls = Append(@, er)], er.message)

\* next(err): Express passes the error to the error-handling middleware.
\* `by` records who called: the handler itself, Express's own catch around
\* the route, or the catch stage at the end of the promise.
NextCallback(r, er, by) ==
    ErrorMiddleware([r EXCEPT !.nextCalls = Append(@, [err |-> er, by |-> by])], er)

-----------------------------------------------------------------------------
(* Running the handler's code until it suspends, returns or throws.        *)

\* Index of the first statement `op` at or after position k (0: none).
FindOp(p, k, op) ==
    LET S == {j \in k..Len(p) : p[j] = op}
    IN  IF S = {} THEN 0 ELSE CHOOSE j \in S : \A m \in S : j <= m

\* Variant of Raise: an exception always leaves the handler, whatever catch
\* block encloses it.
RaiseIgnoresHandlers(r, er) ==
    [r EXCEPT !.st = "threw", !.err = er]

\* An exception raised at the current statement: control passes to the
\* innermost enclosing catch block, or leaves the handler.
Raise(r, er) ==
    IF r.handlers # <<>>
    THEN [r EXCEPT !.pc = Head(r.handlers) + 1, !.handlers = Tail(@)]
    ELSE [r EXCEPT !.st = "threw", !.err = er]

RECURSIVE Run(_, _)
Run(r, p) ==
    IF r.st = "threw" THEN r
    ELSE IF r.pc > Len(p) THEN [r EXCEPT !.st = "returned"]
    ELSE LET s == p[r.pc]
             nx == [r EXCEPT !.pc = @ + 1]
         IN  CASE s \in {"awaitGood", "awaitBad"} -> [r EXCEPT !.st = "awaiting"]
               [] s = "writeResult" -> Run(ResWrite(nx, r.result \o "\n"), p)
               [] s = "writeLit" -> Run(ResWrite(nx, LateText), p)
               [] s = "next" -> Run(NextCallback(nx, StreamError, "handler"), p)
               [] s = "throw" -> Run(Raise(r, ThrownError), p)
               [] s = "try" ->
                    Run([nx EXCEPT !.handlers = <<FindOp(p, r.pc, "catch")>> \o @], p)
               [] s = "catch" ->
                    Run([r EXCEPT !.pc = FindOp(p, r.pc, "end") + 1,
                                  !.handlers = Tail(@)], p)
               [] s = "end" -> Run(nx, p)

\* The pending step settles and the code after it runs: asyncTaskGood's value
\* becomes `result`, asyncTaskBad's rejection is raised at the await.
Resume(r, p) ==
    LET q == [r EXCEPT !.resumed = TRUE, !.st = "running"]
    IN  IF p[r.pc] = "awaitGood"
        THEN Run([q EXCEPT !.result = GoodResult, !.pc = @ + 1], p)
        ELSE Run(Raise(q, BadError), p)

-----------------------------------------------------------------------------
(* The outcome of the handler's code, per sample.                          *)

\* The promise of the handler's whole run: fulfilled when the code returns,
\* rejected with the failure when it throws, pending while it awaits.
Settled(q, by) ==
    CASE q.st = "returned" -> [q EXCEPT !.st = "completed"]
      [] q.st = "threw" -> [q EXCEPT !.st = "rejected", !.caughtBy = by]
      [] OTHER -> q

\* Variant of ExpressCatch: the exception of the route is left uncaught.
ExpressNoCatch(q) ==
    [q EXCEPT !.st = "crashed", !.uncaught = TRUE]

\* Express catches an exception thrown within the initial synchronous
\* execution of a route and passes it to the error-handling middleware.
ExpressCatch(q) ==
    [NextCallback(q, q.err, "express") EXCEPT !.st = "forwarded", !.caughtBy = "express"]

\* promises.js: the route function itself; its code up to the first step runs
\* in Express's call, the rest in then callbacks ending in .catch(next).
PromisesInvoke(r, p) ==
    LET q == Run([r EXCEPT !.st = "running", !.variant = "promises"], p)
    IN  IF q.st = "threw" THEN ExpressCatch(q) ELSE Settled(q, "promise")

\* Variant of ThenCallback: an exception inside the callback is not captured
\* by a promise (a raw callback) and is left uncaught.
ThenCallbackUncaught(r, p) ==
    LET q == Resume(r, p)
    IN  IF q.st = "threw" /\ q.err = ThrownError
        THEN [q EXCEPT !.st = "crashed", !.uncaught = TRUE]
        ELSE Settled(q, "promise")

\* A then callback: an exception inside it rejects the chain.
ThenCallback(r, p) == Settled(Resume(r, p), "promise")

\* generators.js: cr = Promise.coroutine(genFn); cr(req, res, next)
CoroutineInvoke(r, p) ==
    Settled(Run([r EXCEPT !.st = "running", !.variant = "generators"], p), "coroutine")

\* Variant of CoroutineStep: the driver resumes the generator with next()
\* even when the yielded promise rejected.
CoroutineStepIgnoresFailure(r, p) ==
    Settled(Run([r EXCEPT !.resumed = TRUE, !.st = "running", !.pc = @ + 1], p), "coroutine")

\* The coroutine driver resumes the generator with the value, or throws the
\* failure back into it.
CoroutineStep(r, p) == Settled(Resume(r, p), "coroutine")

\* asyncAwait.js: fn(...args) for an async function
AsyncInvoke(r, p) ==
    Settled(Run([r EXCEPT !.st = "running", !.variant = "asyncAwait"], p), "async")

\* Variant of AsyncStep: the rejection of the async function is dropped (no
\* catch stage attached).
AsyncStepDropsRejection(r, p) ==
    LET q == Resume(r, p)
    IN  IF q.st = "threw" THEN [q EXCEPT !.st = "completed"] ELSE Settled(q, "async")

\* The runtime resumes the async function after an await.
AsyncStep(r, p) == Settled(Resume(r, p), "async")

\* Variant of WrapNext: one callback captured outside the per-request
\* closure and shared by every request.
WrapNextShared(i) == 1

\* args[2] / next of the wrapper's closure: the request's own callback.
WrapNext(i) == i

-----------------------------------------------------------------------------
(* Actions.                                                                *)

Init ==
    /\ prog \in Programs
    /\ reqs = [i \in Reqs |-> InitReq]

\* GET / arrives at the promises sample.
PromisesRoute(i) ==
    /\ reqs[i].st = "idle"
    /\ reqs' = [reqs EXCEPT ![i] = PromisesInvoke(@, prog)]
    /\ UNCHANGED prog

\* GET / arrives at the generators sample.
GeneratorsRoute(i) ==
    /\ reqs[i].st = "idle"
    /\ reqs' = [reqs EXCEPT ![i] = CoroutineInvoke(@, prog)]
    /\ UNCHANGED prog

\* GET / arrives at the async/await sample.
AsyncAwaitRoute(i) ==
    /\ reqs[i].st = "idle"
    /\ reqs' = [reqs EXCEPT ![i] = AsyncInvoke(@, prog)]
    /\ UNCHANGED prog

\* The asynchronous step request i waits for settles.
StepSettles(i) ==
    /\ reqs[i].st = "awaiting"
    /\ reqs' = [reqs EXCEPT ![i] =
                  CASE @.variant = "promises" -> ThenCallback(@, prog)
                    [] @.variant = "generators" -> CoroutineStep(@, prog)
                    [] OTHER -> AsyncStep(@, prog)]
    /\ UNCHANGED prog

\* Variant of CatchNext: the catch stage is attached twice to the promise.
CatchNextTwice(i) ==
    /\ reqs[i].st = "rejected"
    /\ reqs' = [reqs EXCEPT ![i] =
                  [NextCallback(NextCallback(@, @.err, "catch"), @.err, "catch")
                     EXCEPT !.st = "forwarded"]]
    /\ UNCHANGED prog

\* The .catch(next) stage runs for the rejected promise of request i.
CatchNext(i) ==
    /\ reqs[i].st = "rejected"
    /\ LET t == WrapNext(i)
           handled == [reqs EXCEPT ![i].st = "forwarded"]
       IN  reqs' = [handled EXCEPT ![t] = NextCallback(@, reqs[i].err, "catch")]
    /\ UNCHANGED prog

Next ==
    \E i \in Reqs :
        \/ PromisesRoute(i)
        \/ GeneratorsRoute(i)
        \/ AsyncAwaitRoute(i)
        \/ StepSettles(i)
        \/ CatchNext(i)

Spec == Init /\ [][Next]_vars

-----------------------------------------------------------------------------
(* Vocabulary of the properties.                                           *)

Done(r) == r.st \in {"completed", "forwarded", "crashed"}

\* Handler logic made of asynchronous steps and response writes only.
PlainProgram(p) ==
    \A k \in 1..Len(p) : p[k] \in {"awaitGood", "awaitBad", "writeResult", "writeLit"}

\* Position of the first failing asynchronous step (0: every step succeeds).
FirstBad(p) == FindOp(p, 1, "awaitBad")

\* What the write statement at position k sends, read off the handler's text.
ChunkOf(p, k) ==
    CASE p[k] = "writeResult" ->
           (IF \E j \in 1..(k - 1) : p[j] = "awaitGood" THEN GoodResult ELSE Undefined) \o "\n"
      [] p[k] = "writeLit" -> LateText
      [] OTHER -> ""

\* The values written by statements 1..n, concatenated in issue order.
RECURSIVE WritesUpTo(_, _)
WritesUpTo(p, n) == IF n = 0 THEN "" ELSE WritesUpTo(p, n - 1) \o ChunkOf(p, n)

HasWrite(p, from, to) == \E k \in from..to : p[k] \in {"writeResult", "writeLit"}

-----------------------------------------------------------------------------
\* C1: when the Nth asynchronous step of a handler made of steps and writes
\* fails, the response body holds every write issued before step N and none
\* issued after it, and the error-handling stage is invoked exactly once,
\* with the failure value of step N unchanged.
C1_FailureForwarding ==
    \A i \in Reqs :
        LET r == reqs[i]
            n == FirstBad(prog)
        IN  (PlainProgram(prog) /\ n > 0) =>
              /\ Len(r.errCalls) <= 1
              /\ ~r.writeAfterEnd
              /\ Done(r) =>
                   /\ r.st = "forwarded"
                   /\ r.errCalls = <<BadError>>
                   /\ r.nextCalls = <<[err |-> BadError, by |-> "catch"]>>
                   /\ Body(r) = WritesUpTo(prog, n - 1) \o BadError.message

\* A request whose step failed after a write and before another write.
C1_Witness ==
    \E i \in Reqs :
        /\ PlainProgram(prog) /\ FirstBad(prog) > 1
        /\ HasWrite(prog, 1, FirstBad(prog) - 1)
        /\ HasWrite(prog, FirstBad(prog) + 1, Len(prog))
        /\ reqs[i].st = "forwarded"
        /\ reqs[i].variant = "generators"

\* C2: in each of the three samples GET / answers "Hello World\n" followed
\* by "oh no!"; 'will not make it here' is never written and the failure
\* reaches the error-handling middleware.
C2_SampleOutput ==
    prog = SampleProgram =>
        \A i \in Reqs :
            LET r == reqs[i]
            IN  /\ Body(r) \in {"", "Hello World\n", "Hello World\noh no!"}
                /\ \A k \in 1..Len(r.chunks) : r.chunks[k] # "will not make it here"
                /\ r.st # "completed"
                /\ Done(r) =>
                     /\ Body(r) = "Hello World\noh no!"
                     /\ r.errCalls = <<[message |-> "oh no!"]>>
                     /\ r.ended

\* The sample route answered in the promises and in the async/await sample.
C2_Witness ==
    /\ prog = SampleProgram
    /\ \E i, j \in Reqs :
          /\ reqs[i].variant = "promises" /\ reqs[i].st = "forwarded"
          /\ reqs[j].variant = "asyncAwait" /\ reqs[j].st = "forwarded"

\* C3: when every asynchronous step of a handler succeeds, the response body
\* is the concatenation, in issue order, of the values the handler wrote, and
\* the next-stage callback and the error-handling stage are never invoked.
C3_SuccessPath ==
    \A i \in Reqs :
        LET r == reqs[i]
        IN  (PlainProgram(prog) /\ FirstBad(prog) = 0) =>
              /\ r.nextCalls = <<>>
              /\ r.errCalls = <<>>
              /\ ~r.ended
              /\ Done(r) =>
                   /\ r.st = "completed"
                   /\ Body(r) = WritesUpTo(prog, Len(prog))

\* A handler that wrote after a successful step has completed.
C3_Witness ==
    \E i \in Reqs :
        /\ PlainProgram(prog) /\ FirstBad(prog) = 0
        /\ reqs[i].st = "completed"
        /\ reqs[i].resumed
        /\ Len(reqs[i].chunks) >= 1

\* A handler that throws before reaching any asynchronous step: only writes
\* come before the throw.
SyncThrowProgram(p) ==
    LET k == FindOp(p, 1, "throw")
    IN  k > 0 /\ \A j \in 1..(k - 1) : p[j] \in {"writeResult", "writeLit"}

\* The scope that catches a synchronous throw, per sample.
CatchingScope(v) ==
    CASE v = "promises" -> "express"
      [] v = "generators" -> "coroutine"
      [] OTHER -> "async"

\* C4: a handler that throws synchronously before any asynchronous step
\* results, in every variant, in exactly one invocation of the error-handling
\* stage with the thrown value; the exception never escapes uncaught, being
\* caught by the scope around the invocation (Express's for the promise
\* chain, the coroutine's for the generator).
C4_SyncThrow ==
    \A i \in Reqs :
        LET r == reqs[i]
        IN  SyncThrowProgram(prog) =>
              /\ ~r.uncaught
              /\ r.st \notin {"crashed", "completed", "awaiting"}
              /\ Len(r.errCalls) <= 1
              /\ r.st \in {"rejected", "forwarded"} =>
                   /\ r.caughtBy = CatchingScope(r.variant)
                   /\ ~r.resumed
              /\ Done(r) =>
                   /\ r.errCalls = <<ThrownError>>
                   /\ Len(r.nextCalls) = 1

\* A synchronous throw forwarded in the promises and the generators sample.
C4_Witness ==
    /\ SyncThrowProgram(prog)
    /\ \E i, j \in Reqs :
          /\ reqs[i].variant = "promises" /\ reqs[i].errCalls = <<ThrownError>>
          /\ reqs[j].variant = "generators" /\ reqs[j].errCalls = <<ThrownError>>

CallsNext(p) == \E k \in 1..Len(p) : p[k] = "next"

\* C5 as stated: for every handler, including one that calls the next-stage
\* callback itself, the callback and the error-handling stage are invoked at
\* most once per request.
C5_AtMostOnceAnyHandler ==
    \A i \in Reqs : Len(reqs[i].nextCalls) <= 1 /\ Len(reqs[i].errCalls) <= 1

\* C5, amended: the catch stage (or Express's catch) invokes the next-stage callback at
\* most once per request; when the handler does not call the callback
\* itself, the callback and the error-handling stage are invoked at most
\* once, and a finished request ended in exactly one outcome: success with
\* no call, or failure with exactly one call.
C5_AtMostOnce ==
    \A i \in Reqs :
        LET r == reqs[i]
        IN  /\ Cardinality({k \in 1..Len(r.nextCalls) : r.nextCalls[k].by # "handler"}) <= 1
            /\ ~CallsNext(prog) =>
                 /\ Len(r.nextCalls) <= 1
                 /\ Len(r.errCalls) <= 1
                 /\ Done(r) =>
                      \/ r.st = "completed" /\ r.nextCalls = <<>> /\ r.errCalls = <<>>
                      \/ r.st = "forwarded" /\ Len(r.nextCalls) = 1 /\ Len(r.errCalls) = 1

\* A handler that never calls next failed after a resolved step.
C5_Witness ==
    \E i \in Reqs :
        /\ ~CallsNext(prog)
        /\ reqs[i].st = "forwarded" /\ reqs[i].resumed
        /\ Len(reqs[i].nextCalls) = 1

\* C6: the same handler logic run as a promise chain, as a generator under
\* wrap and as an async function under wrap gives identical response bodies
\* and identical sequences of error-handling-stage invocations.
C6_VariantsEquivalent ==
    \A i, j \in Reqs :
        (Done(reqs[i]) /\ Done(reqs[j])) =>
            /\ Body(reqs[i]) = Body(reqs[j])
            /\ reqs[i].errCalls = reqs[j].errCalls
            /\ reqs[i].ended = reqs[j].ended

\* Two finished requests of different samples, with writes and a failure.
C6_Witness ==
    \E i, j \in Reqs :
        /\ reqs[i].variant = "promises" /\ reqs[j].variant = "asyncAwait"
        /\ Done(reqs[i]) /\ Done(reqs[j])
        /\ reqs[i].errCalls # <<>> /\ Len(reqs[i].chunks) >= 2

ContinuationThrowProgram(p) ==
    LET k == FindOp(p, 1, "throw")
    IN  /\ k > 0
        /\ \A j \in 1..(k - 1) : p[j] \in {"awaitGood", "writeResult", "writeLit"}
        /\ \E j \in 1..(k - 1) : p[j] = "awaitGood"

\* C8: an exception raised in a continuation that runs after an asynchronous
\* step resolved is forwarded to the next-stage callback by the catch stage
\* and reaches the error middleware, as a rejected step does; it is never
\* left uncaught.
C8_ContinuationThrow ==
    \A i \in Reqs :
        LET r == reqs[i]
        IN  ContinuationThrowProgram(prog) =>
              /\ ~r.uncaught /\ r.st # "crashed"
              /\ Done(r) =>
                   /\ r.st = "forwarded"
                   /\ r.resumed
                   /\ r.nextCalls = <<[err |-> ThrownError, by |-> "catch"]>>
                   /\ r.errCalls = <<ThrownError>>

\* A throw inside a then callback reached the error middleware.
C8_Witness ==
    \E i \in Reqs :
        /\ ContinuationThrowProgram(prog)
        /\ reqs[i].variant = "promises"
        /\ reqs[i].resumed
        /\ reqs[i].errCalls = <<ThrownError>>

\* C9: when the handler catches the failure of an asynchronous step locally,
\* the wrapper does not invoke the next-stage callback for it; the
\* statements between the failing step and the catch are skipped and the
\* statements of the catch block and after it run.
C9_LocalRecovery ==
    prog = RecoverProgram =>
        \A i \in Reqs :
            LET r == reqs[i]
            IN  /\ r.nextCalls = <<>> /\ r.errCalls = <<>>
                /\ r.st \notin {"rejected", "forwarded", "crashed"}
                /\ \A k \in 1..Len(r.chunks) : r.chunks[k] # LateText
                /\ Done(r) => r.st = "completed" /\ r.chunks = <<"Hello World\n", "Hello World\n">>

\* The recovering handler completed under the async/await wrapper.
C9_Witness ==
    /\ prog = RecoverProgram
    /\ \E i \in Reqs : reqs[i].variant = "asyncAwait" /\ reqs[i].st = "completed"

\* A request handled alone: the invocation of its route, then each job of
\* its own until it is finished.
SoloInvoke(v) ==
    CASE v = "promises" -> PromisesInvoke(InitReq, prog)
      [] v = "generators" -> CoroutineInvoke(InitReq, prog)
      [] OTHER -> AsyncInvoke(InitReq, prog)

SoloStep(r) ==
    CASE r.st = "awaiting" /\ r.variant = "promises" -> ThenCallback(r, prog)
      [] r.st = "awaiting" /\ r.variant = "generators" -> CoroutineStep(r, prog)
      [] r.st = "awaiting" -> AsyncStep(r, prog)
      [] r.st = "rejected" -> [NextCallback(r, r.err, "catch") EXCEPT !.st = "forwarded"]
      [] OTHER -> r

RECURSIVE SoloStates(_)
SoloStates(r) == IF Done(r) THEN {r} ELSE {r} \cup SoloStates(SoloStep(r))

\* C10: with several requests in flight, interleaved in any order, every
\* write and every failure of a request goes to its own response and its
\* own next-stage callback: at every moment a request is in a state it
\* passes through when it runs alone.
C10_Independent ==
    \A i \in Reqs :
        reqs[i].st # "idle" => reqs[i] \in SoloStates(SoloInvoke(reqs[i].variant))

\* Two requests of the same sample interleaved: one has been resumed and
\* waits for its next step while the other's failure has been forwarded.
C10_Witness ==
    \E i, j \in Reqs :
        /\ i # j
        /\ reqs[i].variant = reqs[j].variant
        /\ reqs[i].st = "awaiting" /\ reqs[i].resumed
        /\ reqs[j].st = "forwarded" /\ reqs[j].errCalls # <<>>

-----------------------------------------------------------------------------
(* The three samples as they are, with their scheduling: a pending         *)
(* asynchronous step eventually settles, and the event loop eventually     *)
(* runs the catch stage of a rejected promise.                             *)

InitSample ==
    /\ prog = SampleProgram
    /\ reqs = [i \in Reqs |-> InitReq]

Fairness ==
    \A i \in Reqs : WF_vars(StepSettles(i)) /\ WF_vars(CatchNext(i))

SampleFairSpec == InitSample /\ [][Next]_vars /\ Fairness

\* C11: in each of the three samples, provided every pending asynchronous
\* step eventually settles, every accepted GET / request eventually has its
\* response terminated; res.end is called exactly once for it and nothing is
\* written to the response after it has been terminated.
C11_EventuallyEndedOnce ==
    /\ \A i \in Reqs :
          (reqs[i].st # "idle") ~> (reqs[i].ended /\ reqs[i].endCalls = 1)
    /\ [](\A i \in Reqs : reqs[i].endCalls <= 1 /\ ~reqs[i].writeAfterEnd)
    /\ [][\A i \in Reqs :
             reqs[i].ended => (reqs'[i].ended /\ reqs'[i].chunks = reqs[i].chunks)]_vars

\* Requests of two different samples both terminated, each by one res.end.
C11_Witness ==
    \E i, j \in Reqs :
        /\ reqs[i].variant = "generators" /\ reqs[j].variant = "promises"
        /\ reqs[i].ended /\ reqs[i].endCalls = 1
        /\ reqs[j].ended /\ reqs[j].endCalls = 1
        /\ ~reqs[i].writeAfterEnd /\ ~reqs[j].writeAfterEnd

====
